---- MODULE Spec2Model ----
(***************************************************************************)
(* A model of the Twilio phone bot of src/bot.py: one call session made of *)
(* the message list, the pipeline task and its stage chain, and the two    *)
(* transport event handlers registered by run_bot.                        *)
(*                                                                         *)
(* bot.py builds the session out of the pipecat framework, whose code is   *)
(* not part of the repository.  What bot.py itself writes (the message     *)
(* list, the order of the stages, the bodies of the two handlers, the      *)
(* final runner.run) is translated from the source.  What the framework    *)
(* does behind the calls bot.py makes (queue_frames, cancel, run, the      *)
(* processing of a frame by a stage) is modelled from spec.md.             *)
(***************************************************************************)
EXTENDS Naturals, Sequences, FiniteSets

\* Bounds of the model.
MaxUtterances == 1
MaxConnects == 2
MaxDisconnects == 2
LinkCap == 2

VARIABLES
    messages,         \* the list `messages`, shared with the context
    link,             \* link[0]: frames queued to the task; link[i]: output of stage i
    cancelled,        \* task.cancel() has been called
    finished,         \* runner.run(task) has returned, so run_bot has returned
    clientConnected,  \* the transport has a client on the line
    disconnects,      \* 'client disconnected' events delivered so far
    utterances,       \* user utterances received so far
    played,           \* responses whose synthesized audio transport-output completed
    firstSeen,        \* the context read by the first language-model turn
    connects,         \* 'client connected' events delivered so far
    messages2,        \* a second run_bot call: its message list
    queue2,           \* a second run_bot call: the frames queued to its task
    cancelled2,       \* a second run_bot call: its task.cancel() has been called
    finished2,        \* a second run_bot call: its runner.run has returned
    connects2,        \* 'client connected' events delivered to the second call
    disconnects2      \* 'client disconnected' events delivered to the second call

\* The state of the session, and of a second session running beside it.
vars1 == <<messages, link, cancelled, finished, clientConnected, disconnects,
           utterances, played, firstSeen, connects>>

vars2 == <<messages2, queue2, cancelled2, finished2, connects2, disconnects2>>

vars == <<vars1, vars2>>

----------------------------------------------------------------------------
\* The message list and the frames.

SystemPrompt == [role |-> "system", text |-> "takeaway assistant script", id |-> 0]

Directive ==
    [role |-> "system", text |-> "Say hello and briefly introduce yourself.", id |-> 0]

UserTurn(k) == [role |-> "user", text |-> "utterance", id |-> k]

AssistantTurn(k) == [role |-> "assistant", text |-> "response", id |-> k]

Frame(kind, k) == [kind |-> kind, id |-> k]

\* context_aggregator.user().get_context_frame(): a frame that refers to the
\* shared context (it holds no copy of the messages).
get_context_frame == Frame("Context", 0)

----------------------------------------------------------------------------
\* The stage chain, in the order run_bot passes it to Pipeline.

StagesSwappedOutput ==
    <<"transport_input", "rtvi", "stt", "user_aggregator", "llm", "tts",
      "assistant_aggregator", "transport_output">>

Stages ==
    <<"transport_input", "rtvi", "stt", "user_aggregator", "llm", "tts",
      "transport_output", "assistant_aggregator">>

NumStages == Len(Stages)

Pos(name) == CHOOSE i \in 1..NumStages : Stages[i] = name

\* The frames a stage emits for one input frame.
Output(stage, f) ==
    CASE stage = "stt" /\ f.kind = "Audio" -> <<Frame("Transcript", f.id)>>
      [] stage = "user_aggregator" /\ f.kind = "Transcript" -> <<Frame("Context", f.id)>>
      [] stage = "llm" /\ f.kind = "Context" -> <<Frame("LLMText", f.id)>>
      [] stage = "tts" /\ f.kind = "LLMText" ->
            <<Frame("TTSAudio", f.id), Frame("TTSDone", f.id)>>
      [] OTHER -> <<f>>

\* The turn a stage appends to the context for one input frame (<<>>: none).
Appended(stage, f) ==
    CASE stage = "user_aggregator" /\ f.kind = "Transcript" -> <<UserTurn(f.id)>>
      [] stage = "assistant_aggregator" /\ f.kind = "TTSDone" -> <<AssistantTurn(f.id)>>
      [] OTHER -> <<>>

----------------------------------------------------------------------------
\* The session state of spec.md section 4.4, read off the session's fields.

NumDirectives(ms) == Cardinality({i \in 1..Len(ms) : i > 1 /\ ms[i] = Directive})

HasTurns(ms) == \E i \in 1..Len(ms) : ms[i].role \in {"user", "assistant"}

SessionState ==
    IF finished THEN "Closed"
    ELSE IF cancelled THEN "Disconnecting"
    ELSE IF NumDirectives(messages) = 0 THEN "Idle"
    ELSE IF HasTurns(messages) THEN "Active"
    ELSE "Connected"

----------------------------------------------------------------------------
Init ==
    /\ messages = <<SystemPrompt>>
    /\ link = [i \in 0..NumStages |-> <<>>]
    /\ cancelled = FALSE
    /\ finished = FALSE
    /\ clientConnected = FALSE
    /\ disconnects = 0
    /\ utterances = 0
    /\ played = <<>>
    /\ firstSeen = <<>>
    /\ connects = 0
    /\ messages2 = <<SystemPrompt>>
    /\ queue2 = <<>>
    /\ cancelled2 = FALSE
    /\ finished2 = FALSE
    /\ connects2 = 0
    /\ disconnects2 = 0

\* task.queue_frames(frames): the frames join the task's queue, in order, unless
\* the task has ended.
queue_frames(q, frames) == IF finished THEN q ELSE q \o frames

\* on_client_connected: append the directive, then queue one context frame.
on_client_connected_NoAppend ==
    /\ messages' = messages
    /\ link' = [link EXCEPT ![0] = queue_frames(@, <<get_context_frame>>)]

on_client_connected_UserRole ==
    /\ messages' = Append(messages, [Directive EXCEPT !.role = "user"])
    /\ link' = [link EXCEPT ![0] = queue_frames(@, <<get_context_frame>>)]

on_client_connected_Reset ==
    /\ messages' = <<SystemPrompt, Directive>>
    /\ link' = [link EXCEPT ![0] = queue_frames(@, <<get_context_frame>>)]

on_client_connected_Prepend ==
    /\ messages' = <<Directive>> \o messages
    /\ link' = [link EXCEPT ![0] = queue_frames(@, <<get_context_frame>>)]

on_client_connected_Guarded ==
    IF NumDirectives(messages) = 0
    THEN /\ messages' = Append(messages, Directive)
         /\ link' = [link EXCEPT ![0] = queue_frames(@, <<get_context_frame>>)]
    ELSE UNCHANGED <<messages, link>>

on_client_connected ==
    /\ messages' = Append(messages, Directive)
    /\ link' = [link EXCEPT ![0] = queue_frames(@, <<get_context_frame>>)]

\* The transport signals 'client connected'.
ClientConnected ==
    /\ connects < MaxConnects
    /\ connects' = connects + 1
    /\ on_client_connected
    /\ clientConnected' = TRUE
    /\ UNCHANGED <<cancelled, finished, disconnects, utterances, played, firstSeen>>
    /\ UNCHANGED vars2

\* task.cancel(): the task is cancelled and every stage drops its buffered work.
task_cancel ==
    /\ cancelled' = TRUE
    /\ link' = IF finished THEN link ELSE [i \in 0..NumStages |-> <<>>]

\* on_client_disconnected: cancel the task.
on_client_disconnected_NoCancel ==
    /\ UNCHANGED <<cancelled, link>>

on_client_disconnected ==
    /\ task_cancel

\* The transport signals 'client disconnected'.
ClientDisconnected ==
    /\ disconnects < MaxDisconnects
    /\ disconnects' = disconnects + 1
    /\ on_client_disconnected
    /\ clientConnected' = FALSE
    /\ UNCHANGED <<messages, finished, utterances, played, firstSeen, connects>>
    /\ UNCHANGED vars2

\* await runner.run(task): returns once the task is cancelled; run_bot ends.
RunnerReturns ==
    /\ cancelled
    /\ ~finished
    /\ finished' = TRUE
    /\ UNCHANGED <<messages, link, cancelled, clientConnected, disconnects,
                   utterances, played, firstSeen, connects>>
    /\ UNCHANGED vars2

\* The caller speaks: transport-input emits the audio of one utterance.
UserSpeaks ==
    /\ clientConnected
    /\ ~cancelled
    /\ utterances < MaxUtterances
    /\ Len(link[Pos("transport_input")]) < LinkCap
    /\ utterances' = utterances + 1
    /\ link' = [link EXCEPT ![Pos("transport_input")] =
                    Append(@, Frame("Audio", utterances + 1))]
    /\ UNCHANGED <<messages, cancelled, finished, clientConnected, disconnects,
                   played, firstSeen, connects>>
    /\ UNCHANGED vars2

\* Barge-in: a finalized transcript reaching the user aggregator cancels the
\* assistant response still in flight; its frames are dropped from every link,
\* so its turn is never appended.
AssistantKinds == {"LLMText", "TTSAudio", "TTSDone"}

BargeIn(stage, f) == stage = "user_aggregator" /\ f.kind = "Transcript"

NotAssistantFrame(x) == x.kind \notin AssistantKinds

Kept(stage, f, q) == IF BargeIn(stage, f) THEN SelectSeq(q, NotAssistantFrame) ELSE q

\* Stage i takes the frame at the head of its input link and processes it.
StageStep(i) ==
    /\ ~cancelled
    /\ link[i - 1] # <<>>
    /\ LET f == Head(link[i - 1])
           out == Output(Stages[i], f)
           kept == [j \in 0..NumStages |-> Kept(Stages[i], f, link[j])]
       IN /\ i < NumStages => Len(kept[i]) + Len(out) <= LinkCap
          /\ link' = [kept EXCEPT ![i - 1] = Tail(@),
                                  ![i] = IF i < NumStages THEN @ \o out ELSE @]
          /\ messages' = messages \o Appended(Stages[i], f)
          /\ played' = IF Stages[i] = "transport_output" /\ f.kind = "TTSDone"
                       THEN Append(played, f.id) ELSE played
          /\ firstSeen' = IF Stages[i] = "llm" /\ f.kind = "Context" /\ firstSeen = <<>>
                          THEN messages ELSE firstSeen
    /\ UNCHANGED <<cancelled, finished, clientConnected, disconnects, utterances,
                   connects>>
    /\ UNCHANGED vars2

Next ==
    \/ ClientConnected
    \/ ClientDisconnected
    \/ RunnerReturns
    \/ UserSpeaks
    \/ \E i \in 1..NumStages : StageStep(i)

Spec == Init /\ [][Next]_vars

\* The runner does return once the task is cancelled.
LiveSpec == Spec /\ WF_vars(RunnerReturns)

----------------------------------------------------------------------------
\* A second call of run_bot, for a second caller, running beside the first.  Its
\* handlers and runner are those of the first call, acting on its own message
\* list, task and lifecycle; the frames queued to its task stay on its queue.

\* The message list the handlers of call number `call` close over: the list that
\* call built for itself (messages is a local of run_bot).
run_bot_messages_Shared(call) == 1

run_bot_messages(call) == call

\* on_client_connected of the second call.
on_client_connected2 ==
    /\ messages' = IF run_bot_messages(2) = 1
                   THEN Append(messages, Directive) ELSE messages
    /\ messages2' = IF run_bot_messages(2) = 2
                    THEN Append(messages2, Directive) ELSE messages2
    /\ queue2' = IF finished2 THEN queue2 ELSE Append(queue2, get_context_frame)

ClientConnected2 ==
    /\ connects2 < MaxConnects
    /\ connects2' = connects2 + 1
    /\ on_client_connected2
    /\ UNCHANGED <<cancelled2, finished2, disconnects2>>
    /\ UNCHANGED <<link, cancelled, finished, clientConnected, disconnects,
                   utterances, played, firstSeen, connects>>

\* on_client_disconnected of the second call: cancel its own task, whatever
\* state it is in.
on_client_disconnected2 ==
    /\ cancelled2' = TRUE
    /\ queue2' = IF finished2 THEN queue2 ELSE <<>>

ClientDisconnected2 ==
    /\ disconnects2 < MaxDisconnects
    /\ disconnects2' = disconnects2 + 1
    /\ on_client_disconnected2
    /\ UNCHANGED <<messages2, finished2, connects2>>
    /\ UNCHANGED vars1

\* runner.run of the second call returns.
RunnerReturns2 ==
    /\ cancelled2
    /\ ~finished2
    /\ finished2' = TRUE
    /\ UNCHANGED <<messages2, queue2, cancelled2, connects2, disconnects2>>
    /\ UNCHANGED vars1

\* Two calls side by side: the events of the first and of the second interleave.
NextTwo ==
    \/ ClientConnected
    \/ ClientDisconnected
    \/ RunnerReturns
    \/ UserSpeaks
    \/ \E i \in 1..NumStages : StageStep(i)
    \/ ClientConnected2
    \/ ClientDisconnected2
    \/ RunnerReturns2

SpecTwo == Init /\ [][NextTwo]_vars

----------------------------------------------------------------------------
\* Helpers of the properties.

Count(seq, x) == Cardinality({i \in 1..Len(seq) : seq[i] = x})

\* The frames on the links of the pipeline.
InFlight == UNION {{link[i][j] : j \in 1..Len(link[i])} : i \in 0..NumStages}

\* Stage i, an aggregator, appends one turn of its own role.
AggregatorWrites(i, role) ==
    /\ Stages[i] = role \o "_aggregator"
    /\ StageStep(i)
    /\ \E k \in 0..MaxUtterances :
          messages' = Append(messages, [role |-> role,
                                        text |-> IF role = "user" THEN "utterance"
                                                 ELSE "response",
                                        id |-> k])

----------------------------------------------------------------------------
\* C1: a 'client connected' event in state Idle leaves the context equal to
\* [initial system prompt, directive] with exactly one context frame queued at
\* the head of the pipeline and the session Connected; the context the first
\* language-model turn reads starts with [initial system prompt, directive] and
\* holds no assistant turn (only caller input that arrived meanwhile may follow).
C1_ConnectSeedsContext ==
    /\ [][(ClientConnected /\ SessionState = "Idle") =>
            /\ messages' = <<SystemPrompt, Directive>>
            /\ link'[0] = <<get_context_frame>>
            /\ \A i \in 1..NumStages : link'[i] = <<>>
            /\ SessionState' = "Connected"]_vars
    /\ [](firstSeen # <<>> =>
            /\ Len(firstSeen) >= 2
            /\ SubSeq(firstSeen, 1, 2) = <<SystemPrompt, Directive>>
            /\ \A i \in 1..Len(firstSeen) : firstSeen[i].role # "assistant")

\* C1 as stated: as above, and the context the first language-model turn reads
\* is exactly [initial system prompt, directive].
C1_FirstTurnSeesExactly ==
    /\ [][(ClientConnected /\ SessionState = "Idle") =>
            /\ messages' = <<SystemPrompt, Directive>>
            /\ link'[0] = <<get_context_frame>>
            /\ SessionState' = "Connected"]_vars
    /\ [](firstSeen # <<>> => firstSeen = <<SystemPrompt, Directive>>)

\* The first language-model turn has run on the seeded context, session Connected.
C1_Witness ==
    /\ firstSeen = <<SystemPrompt, Directive>>
    /\ SessionState = "Connected"

\* C2: once a 'client disconnected' event has arrived, the task is cancelled and
\* the session is Disconnecting or Closed from then on, it does reach Closed, and
\* Closed is never left.
C2_DisconnectIsTerminal ==
    /\ [](disconnects > 0 =>
            cancelled /\ SessionState \in {"Disconnecting", "Closed"})
    /\ ((disconnects > 0) ~> finished)
    /\ [][finished => finished']_vars

\* A disconnect arrived while an utterance was in flight (its user turn was never
\* appended) and the session is Closed.
C2_Witness ==
    /\ disconnects > 0
    /\ finished
    /\ utterances > 0
    /\ ~HasTurns(messages)

\* C3: once the session is Closed no step changes the conversation context or
\* puts a frame into the pipeline.
C3_ClosedIsFinal ==
    [][finished => (messages' = messages /\ link' = link)]_vars

\* C6 as stated: every change of the context is one turn appended by an
\* aggregator, in its own role.
C6_OnlyAggregatorsWrite ==
    [][messages' # messages =>
          \E i \in 1..NumStages :
              AggregatorWrites(i, "user") \/ AggregatorWrites(i, "assistant")]_vars

\* C6, amended: every change of the context is one turn appended by an
\* aggregator in its own role, or the system directive appended by the connect
\* handler.
C6_AggregatorsOrConnectWrite ==
    [][messages' # messages =>
          \/ \E i \in 1..NumStages :
                AggregatorWrites(i, "user") \/ AggregatorWrites(i, "assistant")
          \/ (ClientConnected /\ messages' = Append(messages, Directive))]_vars

\* All three writers have written: the directive, a user turn, an assistant turn.
C6_Witness ==
    /\ Count(messages, Directive) > 0
    /\ Count(messages, UserTurn(1)) > 0
    /\ Count(messages, AssistantTurn(1)) > 0

\* C9: whenever the language model has generated for a user turn (a frame of
\* its response is in flight, its audio was completed, or its assistant turn is
\* recorded), that user turn is already in the context; and every assistant turn
\* in the context is one whose complete synthesized audio transport-output has
\* received, the user turn standing before the assistant turn that answers it.
C9_ChainOrder ==
    /\ \A k \in 1..MaxUtterances :
          (\/ \E f \in InFlight : f.id = k /\ f.kind \in {"LLMText", "TTSAudio", "TTSDone"}
           \/ Count(played, k) > 0
           \/ Count(messages, AssistantTurn(k)) > 0)
          => Count(messages, UserTurn(k)) > 0
    /\ \A k \in 0..MaxUtterances :
          Count(messages, AssistantTurn(k)) <= Count(played, k)
    /\ \A i, j \in 1..Len(messages) :
          (messages[i].role = "assistant" /\ messages[j] = UserTurn(messages[i].id))
          => j < i

\* A full round trip: the assistant turn answering utterance 1 is recorded.
C9_Witness ==
    /\ Count(messages, AssistantTurn(1)) > 0
    /\ Count(played, 1) > 0

\* The place of a session state on the path Idle, Connected, Active,
\* Disconnecting, Closed.
Rank(state) ==
    CASE state = "Idle" -> 0
      [] state = "Connected" -> 1
      [] state = "Active" -> 2
      [] state = "Disconnecting" -> 3
      [] state = "Closed" -> 4

\* C14 as stated: every step leaves the session state where it is or moves it
\* to the next state of the path; none skips a state or moves backwards.
C14_NoSkipNoBack ==
    [][Rank(SessionState') \in {Rank(SessionState), Rank(SessionState) + 1}]_vars

\* C14, amended: the session state never moves backwards, and it advances one
\* state at a time except that a 'client disconnected' event moves it to
\* Disconnecting from Idle or Connected as well as from Active.
C14_ForwardOnly ==
    [][\/ Rank(SessionState') \in {Rank(SessionState), Rank(SessionState) + 1}
       \/ /\ ClientDisconnected
          /\ SessionState \in {"Idle", "Connected"}
          /\ SessionState' = "Disconnecting"]_vars

\* A disconnect arrived before any connect and the session went on to Closed.
C14_Witness ==
    /\ SessionState = "Closed"
    /\ connects = 0
    /\ disconnects > 0

\* C15: with two sessions running side by side, no event of one changes the
\* context, frames or lifecycle state of the other, and each context holds the
\* directives of its own connect events only.
C15_SessionsIsolated ==
    /\ [][/\ (ClientConnected2 \/ ClientDisconnected2 \/ RunnerReturns2)
             => UNCHANGED vars1
          /\ (ClientConnected \/ ClientDisconnected \/ RunnerReturns \/ UserSpeaks
                \/ \E i \in 1..NumStages : StageStep(i))
             => UNCHANGED vars2]_vars
    /\ [](/\ Count(messages, Directive) = connects
          /\ Count(messages2, Directive) = connects2)

\* The first session is mid-conversation after two connects, its caller's turn
\* recorded, while the second, connected once and disconnected twice, is Closed.
C15_Witness ==
    /\ connects = 2
    /\ connects2 = 1
    /\ disconnects2 = 2
    /\ finished2
    /\ ~cancelled
    /\ Count(messages, UserTurn(1)) > 0

C18_AppendOnly ==
    /\ [](Len(messages) >= 1 /\ messages[1] = SystemPrompt)
    /\ [][/\ Len(messages') >= Len(messages)
          /\ SubSeq(messages', 1, Len(messages)) = messages]_vars

\* After one connect the greeting was generated and then cut off by the
\* caller's utterance (barge-in: it was never played nor appended), the answer
\* to the utterance was recorded, and the session was then cancelled: the
\* history is [prompt, directive, user turn, assistant turn].
C18_Witness ==
    /\ cancelled
    /\ connects = 1
    /\ firstSeen = <<SystemPrompt, Directive>>
    /\ Count(played, 0) = 0
    /\ messages = <<SystemPrompt, Directive, UserTurn(1), AssistantTurn(1)>>

====
